---- MODULE Spec2Model ----
(***************************************************************************)
(* BitWriter (src/index.js): a sequential writer over a fixed-length byte  *)
(* buffer.  The writer's state is its buffer, its cursor (_pos), its       *)
(* length and its endianness; every public operation is one action.        *)
(*                                                                         *)
(* JavaScript numbers that may leave the 32-bit signed range (0xffffffff   *)
(* is a constant of the source) are kept as hi * 2^16 + lo with            *)
(* 0 <= lo < 2^16, so that comparisons and byte extraction are exact.      *)
(* Cursor positions, lengths and byte values are plain integers.           *)
(***************************************************************************)
EXTENDS Integers, Sequences, FiniteSets, TLC

VARIABLES
  buffer,      \* this._buffer: offset -> byte, offsets 0 .. length-1
  pos,         \* this._pos
  length,      \* this.length
  endianness,  \* this._endianness: "BE" or "LE"
  last,        \* the last call: operation, arguments, state before, outcome
  twin         \* a second writer of the same length and the other endianness

vars == <<buffer, pos, length, endianness, last, twin>>

(***************************************************************************)
(* Bounds of the model.                                                    *)
(***************************************************************************)
MaxLen == 3        \* length of the writer's buffer
MaxOverrun == 1    \* how far past the buffer's end the cursor is followed
MaxTextLen == 2    \* characters in a text handed to writeString
MaxRawLen == 2     \* elements of a byte sequence or list handed to writeRaw

(***************************************************************************)
(* Numbers.                                                                *)
(***************************************************************************)
Half == 256 * 256

Num(hi, lo) == [hi |-> hi, lo |-> lo]

\* a number small enough to be written as one TLA+ integer literal
Lit(v) == Num(v \div Half, v % Half)

Leq(a, b) == a.hi < b.hi \/ (a.hi = b.hi /\ a.lo <= b.lo)

Gt(a, b) == ~Leq(a, b)

Zero == Lit(0)

(***************************************************************************)
(* The Range collaborator (lib/range.js): inclusive bounds and a           *)
(* membership test.                                                        *)
(***************************************************************************)
Range(min, max) == [min |-> min, max |-> max]

RangeTest(r, v) == Leq(r.min, v) /\ Leq(v, r.max)

\* UNSIGNED_RANGE with the 32-bit range one wider at each end
UNSIGNED_RANGE_Wide32(bits) ==
  CASE bits = 8 -> Range(Lit(-128), Lit(255))
    [] bits = 16 -> Range(Lit(-32768), Lit(65535))
    [] bits = 32 -> Range(Num(-32769, 65535), Num(65536, 0))

\* UNSIGNED_RANGE with the 32-bit range ending at 0x7fffffff
UNSIGNED_RANGE_Signed32(bits) ==
  CASE bits = 8 -> Range(Lit(-128), Lit(255))
    [] bits = 16 -> Range(Lit(-32768), Lit(65535))
    [] bits = 32 -> Range(Num(-32768, 0), Num(32767, 65535))

\* BitWriter.UNSIGNED_RANGE: -0x80 .. 0xff, -0x8000 .. 0xffff,
\* -0x80000000 .. 0xffffffff
UNSIGNED_RANGE(bits) ==
  CASE bits = 8 -> Range(Lit(-128), Lit(255))
    [] bits = 16 -> Range(Lit(-32768), Lit(65535))
    [] bits = 32 -> Range(Num(-32768, 0), Num(65535, 65535))

INT_SIZES == <<8, 16, 32>>

\* a terminator of one byte that is not zero
NULL_BYTE_One == <<1>>

NULL_BYTE == <<0>>

between(v, min, max) == Leq(min, v) /\ Leq(v, max)

gentestInt(min, max) == Range(min, max)

\* applying the closure gentestInt returns
test(m, v) == between(v, m.test.min, m.test.max)

(***************************************************************************)
(* The method table, built once from the endianness.                       *)
(***************************************************************************)
\* the method table with the 16-bit primitive, by endianness, in the entry of
\* the unsigned byte
_generateMethodTable_WideByte(e) ==
  << [method |-> "writeUInt16" \o e, length |-> 1,
      test |-> gentestInt(Lit(0), Lit(255))],
     [method |-> "writeUInt16" \o e, length |-> 2,
      test |-> gentestInt(Lit(0), Lit(65535))],
     [method |-> "writeUInt32" \o e, length |-> 4,
      test |-> gentestInt(Lit(0), Num(65535, 65535))],
     [method |-> "writeInt8", length |-> 1,
      test |-> gentestInt(Lit(-128), Lit(127))],
     [method |-> "writeInt16" \o e, length |-> 2,
      test |-> gentestInt(Lit(-32768), Lit(32767))],
     [method |-> "writeInt32" \o e, length |-> 4,
      test |-> gentestInt(Num(-32768, 0), Num(32767, 65535))] >>

_generateMethodTable(e) ==
  << [method |-> "writeUInt8", length |-> 1,
      test |-> gentestInt(Lit(0), Lit(255))],
     [method |-> "writeUInt16" \o e, length |-> 2,
      test |-> gentestInt(Lit(0), Lit(65535))],
     [method |-> "writeUInt32" \o e, length |-> 4,
      test |-> gentestInt(Lit(0), Num(65535, 65535))],
     [method |-> "writeInt8", length |-> 1,
      test |-> gentestInt(Lit(-128), Lit(127))],
     [method |-> "writeInt16" \o e, length |-> 2,
      test |-> gentestInt(Lit(-32768), Lit(32767))],
     [method |-> "writeInt32" \o e, length |-> 4,
      test |-> gentestInt(Num(-32768, 0), Num(32767, 65535))] >>

_methods == _generateMethodTable(endianness)

\* this._methods.bySize[signedness][size], as an index into _methods
bySize(signedness, size) ==
  IF signedness = "unsigned"
  THEN (CASE size = 8 -> 1 [] size = 16 -> 2 [] size = 32 -> 3)
  ELSE (CASE size = 8 -> 4 [] size = 16 -> 5 [] size = 32 -> 6)

(***************************************************************************)
(* Outcomes of a call: the writer's buffer and cursor when the call        *)
(* returned or threw, the error thrown ("none" on return), the number of   *)
(* bytes encoded and the method-table entry an integer write selected.     *)
(***************************************************************************)
Ok(b, p, n) == [buffer |-> b, pos |-> p, err |-> "none", n |-> n, type |-> 0]

Throw(b, p, e) == [buffer |-> b, pos |-> p, err |-> e, n |-> 0, type |-> 0]

(***************************************************************************)
(* Node's Buffer primitives the writer calls.                              *)
(***************************************************************************)
\* width in bytes, signedness and byte order of a Buffer.prototype writer
NativeMethod(method) ==
  CASE method = "writeUInt8" -> [bytes |-> 1, signed |-> FALSE, le |-> FALSE]
    [] method = "writeInt8" -> [bytes |-> 1, signed |-> TRUE, le |-> FALSE]
    [] method = "writeUInt16BE" -> [bytes |-> 2, signed |-> FALSE, le |-> FALSE]
    [] method = "writeUInt16LE" -> [bytes |-> 2, signed |-> FALSE, le |-> TRUE]
    [] method = "writeInt16BE" -> [bytes |-> 2, signed |-> TRUE, le |-> FALSE]
    [] method = "writeInt16LE" -> [bytes |-> 2, signed |-> TRUE, le |-> TRUE]
    [] method = "writeUInt32BE" -> [bytes |-> 4, signed |-> FALSE, le |-> FALSE]
    [] method = "writeUInt32LE" -> [bytes |-> 4, signed |-> FALSE, le |-> TRUE]
    [] method = "writeInt32BE" -> [bytes |-> 4, signed |-> TRUE, le |-> FALSE]
    [] method = "writeInt32LE" -> [bytes |-> 4, signed |-> TRUE, le |-> TRUE]

\* the values a Buffer.prototype writer accepts (verifuint / verifsint)
NativeRange(nm) ==
  IF nm.signed
  THEN (CASE nm.bytes = 1 -> Range(Lit(-128), Lit(127))
          [] nm.bytes = 2 -> Range(Lit(-32768), Lit(32767))
          [] nm.bytes = 4 -> Range(Num(-32768, 0), Num(32767, 65535)))
  ELSE (CASE nm.bytes = 1 -> Range(Lit(0), Lit(255))
          [] nm.bytes = 2 -> Range(Lit(0), Lit(65535))
          [] nm.bytes = 4 -> Range(Lit(0), Num(65535, 65535)))

\* BytesBE with the two 16-bit halves of a 32-bit value exchanged
BytesBE_HalvesSwapped(v, bytes) ==
  LET h == v.hi % Half
  IN CASE bytes = 1 -> << v.lo % 256 >>
       [] bytes = 2 -> << v.lo \div 256, v.lo % 256 >>
       [] bytes = 4 -> << v.lo \div 256, v.lo % 256, h \div 256, h % 256 >>

\* the low `bytes` bytes of the two's complement of v, most significant first
BytesBE(v, bytes) ==
  LET h == v.hi % Half
  IN CASE bytes = 1 -> << v.lo % 256 >>
       [] bytes = 2 -> << v.lo \div 256, v.lo % 256 >>
       [] bytes = 4 -> << h \div 256, h % 256, v.lo \div 256, v.lo % 256 >>

\* Reverse that keeps the order
Reverse_Same(s) == s

Reverse(s) == [i \in 1..Len(s) |-> s[Len(s) + 1 - i]]

\* Store that puts a zero after the bytes of s
Store_TrailingZero(b, offset, s) ==
  [i \in DOMAIN b |->
     IF i >= offset /\ i < offset + Len(s) THEN s[i - offset + 1]
     ELSE IF i = offset + Len(s) THEN 0 ELSE b[i]]

\* b with the bytes of s stored at offset .. offset + Len(s) - 1
Store(b, offset, s) ==
  [i \in DOMAIN b |->
     IF i >= offset /\ i < offset + Len(s) THEN s[i - offset + 1] ELSE b[i]]

\* Buffer.prototype[method].call(this._buffer, value, offset): the checks of
\* the assertions of the primitive (offset within the buffer, value within
\* the type), then the store.  A failed assertion throws before any byte is
\* stored.
BufferWrite(method, b, value, offset) ==
  LET nm == NativeMethod(method)
      be == BytesBE(value, nm.bytes)
  IN IF offset + nm.bytes > length \/ ~RangeTest(NativeRange(nm), value)
     THEN [buffer |-> b, err |-> "AssertionError"]
     ELSE [buffer |-> Store(b, offset, IF nm.le THEN Reverse(be) ELSE be),
           err |-> "none"]

(***************************************************************************)
(* Cursor and capacity.                                                    *)
(***************************************************************************)
remaining(p) == length - p

full(p) == remaining(p) = 0

\* position that tests the lower end only
position_NoUpper(b, p, q) ==
  IF q < 0 THEN Throw(b, p, "range") ELSE Ok(b, q, 0)

\* position(q) with an argument: the setter
position(b, p, q) ==
  IF q > length \/ q < 0 THEN Throw(b, p, "range") ELSE Ok(b, q, 0)

move(b, p, amount) == position(b, p, p + amount)

\* reset that moves the cursor and leaves the bytes
reset_NoFill(b, p) == position(b, p, 0)

reset(b, p) == position([i \in DOMAIN b |-> 0], p, 0)

(***************************************************************************)
(* Options.  size is the option's value when hasSize; null stands for      *)
(* opts.null !== false, safe for opts.safe === true.                       *)
(***************************************************************************)
Opts(hasSize, size, null, safe) ==
  [size |-> size, hasSize |-> hasSize, null |-> null, safe |-> safe]

NoOpts == Opts(FALSE, 0, TRUE, FALSE)

SizeOpt(size) == Opts(TRUE, size, TRUE, FALSE)

\* `opts && opts.size`, `if (opts.size)`: the option is present and truthy
truthySize(opts) == opts.hasSize /\ opts.size # 0

Elements(s) == {s[i] : i \in 1..Len(s)}

(***************************************************************************)
(* writeInt                                                                *)
(***************************************************************************)
\* firstMatch taking the last entry that matches instead of the first
firstMatch_Last(integer) ==
  LET hits == {i \in 1..Len(_methods) : test(_methods[i], integer)}
  IN IF hits = {} THEN 0 ELSE CHOOSE i \in hits : \A j \in hits : i >= j

\* this._methods.filter(m => m.test(integer))[0], 0 when no entry matches
firstMatch(integer) ==
  LET hits == {i \in 1..Len(_methods) : test(_methods[i], integer)}
  IN IF hits = {} THEN 0 ELSE CHOOSE i \in hits : \A j \in hits : i <= j

writeInt(b, p, integer, opts) ==
  LET range == UNSIGNED_RANGE(32)
      validSizes == INT_SIZES
      type == IF truthySize(opts)
              THEN bySize(IF Gt(integer, Zero) THEN "unsigned" ELSE "signed",
                          opts.size)
              ELSE firstMatch(integer)
  IN IF ~RangeTest(range, integer) THEN Throw(b, p, "range")
     ELSE IF truthySize(opts) /\ opts.size \notin Elements(validSizes)
     THEN Throw(b, p, "size")
     ELSE IF type = 0 THEN Throw(b, p, "dispatch")
     ELSE IF _methods[type].length > remaining(p) THEN Throw(b, p, "overflow")
     ELSE LET w == BufferWrite(_methods[type].method, b, integer, p)
          IN IF w.err # "none" THEN Throw(b, p, w.err)
             ELSE [move(w.buffer, p, _methods[type].length)
                     EXCEPT !.n = _methods[type].length, !.type = type]

(***************************************************************************)
(* Values handed to write: a number, a text (its code points), a byte      *)
(* sequence (a Buffer) or a list.  A list element is a number or something *)
(* that is not a number.                                                   *)
(***************************************************************************)
Data(kind, num, seq) == [kind |-> kind, num |-> num, seq |-> seq]

NumberData(v) == Data("number", v, <<>>)

StringData(s) == Data("string", Zero, s)

BufferData(s) == Data("buffer", Zero, s)

ArrayData(s) == Data("array", Zero, s)

Elem(v) == [number |-> TRUE, v |-> v]

NotANumber == [number |-> FALSE, v |-> 0]

Min(a, b) == IF a <= b THEN a ELSE b

\* Buffer(string): the UTF-8 bytes of the text (code points below 0x800)
RECURSIVE utf8(_)
utf8(s) ==
  IF s = <<>> THEN <<>>
  ELSE LET c == Head(s)
       IN (IF c < 128 THEN <<c>> ELSE <<192 + (c \div 64), 128 + (c % 64)>>)
            \o utf8(Tail(s))

\* Buffer(n) followed by fill(0)
zeros(n) == [i \in 1..n |-> 0]

\* buf.copy(this, targetStart): nothing to copy returns at once, a start at
\* or past the target's end throws, and the copy is cut at the target's end
BufferCopy(src, b, targetStart) ==
  IF Len(src) = 0 \/ length = 0 THEN [buffer |-> b, err |-> "none"]
  ELSE IF targetStart < 0 \/ targetStart >= length
  THEN [buffer |-> b, err |-> "targetStart out of bounds"]
  ELSE [buffer |->
          Store(b, targetStart, SubSeq(src, 1, Min(Len(src), length - targetStart))),
        err |-> "none"]

\* the outcome r of the cursor move that ends a write of n bytes
Encoded(r, n) == IF r.err = "none" THEN [r EXCEPT !.n = n] ELSE r

_copyBuffer(b, p, buf) ==
  LET c == BufferCopy(buf, b, p)
  IN IF c.err # "none" THEN Throw(b, p, c.err)
     ELSE Encoded(move(c.buffer, p, Len(buf)), Len(buf))

(***************************************************************************)
(* writeRaw                                                                *)
(***************************************************************************)
\* this._buffer.writeUInt8(arry[n], this._pos++) for n, n+1, ...: the cursor
\* is incremented before writeUInt8 runs its checks
RECURSIVE safeLoop(_, _, _, _)
safeLoop(b, p, arry, n) ==
  IF n > Len(arry) THEN Ok(b, p, Len(arry))
  ELSE IF ~arry[n].number THEN Throw(b, p + 1, "AssertionError")
  ELSE LET w == BufferWrite("writeUInt8", b, Lit(arry[n].v), p)
       IN IF w.err # "none" THEN Throw(b, p + 1, w.err)
          ELSE safeLoop(w.buffer, p + 1, arry, n + 1)

\* the first element the validation loop rejects, 0 when it rejects none
firstInvalid(arry) ==
  LET eightBitRange == UNSIGNED_RANGE(8)
      bad == {n \in 1..Len(arry) :
                ~arry[n].number \/ ~RangeTest(eightBitRange, Lit(arry[n].v))}
  IN IF bad = {} THEN 0 ELSE CHOOSE n \in bad : \A k \in bad : n <= k

writeRaw(b, p, arry, opts) ==
  IF arry.kind = "buffer" THEN _copyBuffer(b, p, arry.seq)
  ELSE IF opts.safe THEN safeLoop(b, p, arry.seq, 1)
  ELSE LET n == firstInvalid(arry.seq)
       IN IF n # 0 /\ ~arry.seq[n].number THEN Throw(b, p, "arrayType")
          ELSE IF n # 0 THEN Throw(b, p, "range")
          \* `this.writeRaw(array, ...)`: no variable `array` exists
          ELSE Throw(b, p, "ReferenceError")

(***************************************************************************)
(* write and writeString                                                   *)
(***************************************************************************)
RECURSIVE write(_, _, _, _)

writeString(b, p, string, opts) ==
  LET buf == utf8(string)
      len == Len(buf)
      size == opts.size
  IN IF truthySize(opts)
     THEN IF len > size
          THEN write(b, p, BufferData(SubSeq(buf, 1, size)), NoOpts)
          ELSE write(b, p, BufferData(buf \o zeros(size - len)), NoOpts)
     ELSE IF len > remaining(p) THEN Throw(b, p, "overflow")
     ELSE LET text == write(b, p, BufferData(buf), NoOpts)
          IN IF text.err # "none" THEN text
             ELSE IF opts.null /\ remaining(text.pos) > 0
             THEN LET nul == write(text.buffer, text.pos, BufferData(NULL_BYTE),
                                   NoOpts)
                  IN Encoded(nul, text.n + nul.n)
             ELSE text

write(b, p, data, opts) ==
  IF data.kind = "string" THEN writeString(b, p, data.seq, opts)
  ELSE IF data.kind \in {"array", "buffer"} THEN writeRaw(b, p, data, opts)
  ELSE writeInt(b, p, data.num, opts)

\* the array-like setter of offset n
setIndex(b, p, n, v) ==
  LET eightBitRange == UNSIGNED_RANGE(8)
  IN IF ~RangeTest(eightBitRange, Lit(v)) THEN Throw(b, p, "range")
     ELSE Ok([b EXCEPT ![n] = v % 256], p, 0)

(***************************************************************************)
(* The arguments the model calls the writer with.                          *)
(***************************************************************************)
\* -2^31 - 1, -2^31, 2^32 - 1, 2^32 and the edges of the narrower types
Ints ==
  { Num(-32769, 65535), Num(-32768, 0), Lit(-32768), Lit(-128), Lit(-1),
    Lit(0), Lit(1), Lit(255), Lit(256), Lit(65535), Lit(65536),
    Num(65535, 65535), Num(65536, 0) }

Sizes == {0, 8, 16, 24, 32}

\* the numbers written with an explicit size
SizedInts ==
  {Num(-32769, 65535), Lit(-1), Lit(0), Lit(256), Num(65536, 0)}

\* texts of up to MaxTextLen characters that alternate U+0001, one UTF-8
\* byte, and U+0080, two
Text(k) == [i \in 1..k |-> IF i % 2 = 1 THEN 1 ELSE 128]

Texts == {Text(k) : k \in 0..MaxTextLen}

TextSizes == 0..(MaxTextLen + 1)

\* the byte sequences 1, 255, 1, ... of up to MaxRawLen bytes
Bytes(k) == [i \in 1..k |-> IF i % 2 = 1 THEN 1 ELSE 255]

ByteSeqs == {Bytes(k) : k \in 0..MaxRawLen}

\* the lists of those bytes
ByteList(k) == [i \in 1..k |-> Elem(Bytes(k)[i])]

\* lists of bytes, and lists of MaxRawLen elements whose last is no byte
Lists ==
  {ByteList(k) : k \in 0..MaxRawLen}
    \cup {[i \in 1..MaxRawLen |->
             IF i < MaxRawLen THEN ByteList(MaxRawLen)[i] ELSE e] :
            e \in {Elem(300), Elem(-1), NotANumber}}

Positions == (-1)..(MaxLen + 1)

Amounts == {-1, 1, 2}

IndexValues == {-129, -1, 0, 255, 256}

(***************************************************************************)
(* The writer and its caller.  The writer is synchronous and used by one   *)
(* caller at a time: a call runs to its return or throw, `last` holds the  *)
(* call and its outcome until the caller has taken it, and the next call   *)
(* starts from the state the call left.                                    *)
(***************************************************************************)
NoData == Data("none", Zero, <<>>)

Idle ==
  [n |-> 0, err |-> "none", type |-> 0, opts |-> NoOpts, data |-> NoData,
   op |-> "none", arg |-> 0, index |-> 0, buffer0 |-> <<>>, pos0 |-> 0]

\* no second writer has been constructed
NoTwin ==
  [buffer |-> <<>>, pos |-> 0, err |-> "none", phase |-> "none",
   err2 |-> "none", multi |-> FALSE]

\* BitWriter(length, endianness) for a length of up to MaxLen: a zero-filled
\* buffer, the cursor at 0
Init ==
  /\ length \in 1..MaxLen
  /\ endianness \in {"BE", "LE"}
  /\ buffer = [i \in 0..(length - 1) |-> 0]
  /\ pos = 0
  /\ last = Idle
  /\ twin = NoTwin

\* a call returned or threw with outcome r
Call(op, data, opts, arg, index, r) ==
  /\ last = Idle
  /\ r.pos <= length + MaxOverrun
  /\ buffer' = r.buffer
  /\ pos' = r.pos
  /\ last' = [n |-> r.n, err |-> r.err, type |-> r.type, opts |-> opts,
              data |-> data, op |-> op, arg |-> arg, index |-> index,
              buffer0 |-> buffer, pos0 |-> pos]
  /\ UNCHANGED <<length, endianness, twin>>

\* the caller has the return value or the exception
Return ==
  /\ last # Idle
  /\ last' = Idle
  /\ UNCHANGED <<buffer, pos, length, endianness, twin>>

Write(data, opts) ==
  Call("write", data, opts, 0, 0, write(buffer, pos, data, opts))

WriteInt(v, opts) ==
  Call("writeInt", NumberData(v), opts, 0, 0, writeInt(buffer, pos, v, opts))

WriteString(s, opts) ==
  Call("writeString", StringData(s), opts, 0, 0,
       writeString(buffer, pos, s, opts))

WriteRaw(arry, opts) ==
  Call("writeRaw", arry, opts, 0, 0, writeRaw(buffer, pos, arry, opts))

Write8(v) ==
  Call("write8", NumberData(v), SizeOpt(8), 0, 0,
       write(buffer, pos, NumberData(v), SizeOpt(8)))

Write16(v) ==
  Call("write16", NumberData(v), SizeOpt(16), 0, 0,
       write(buffer, pos, NumberData(v), SizeOpt(16)))

Write32(v) ==
  Call("write32", NumberData(v), SizeOpt(32), 0, 0,
       write(buffer, pos, NumberData(v), SizeOpt(32)))

Position(q) ==
  Call("position", NoData, NoOpts, q, 0, position(buffer, pos, q))

Move(amount) ==
  Call("move", NoData, NoOpts, amount, 0, move(buffer, pos, amount))

Reset == Call("reset", NoData, NoOpts, 0, 0, reset(buffer, pos))

SetIndex(n, v) ==
  Call("set", NoData, NoOpts, v, n, setIndex(buffer, pos, n, v))

Next ==
  \/ \E v \in Ints : WriteInt(v, NoOpts)
  \/ \E v \in SizedInts, size \in Sizes : WriteInt(v, SizeOpt(size))
  \/ \E s \in Texts, null \in BOOLEAN :
       WriteString(s, Opts(FALSE, 0, null, FALSE))
  \/ \E s \in Texts, size \in TextSizes : WriteString(s, SizeOpt(size))
  \/ \E s \in ByteSeqs : WriteRaw(BufferData(s), NoOpts)
  \/ \E a \in Lists, safe \in BOOLEAN :
       WriteRaw(ArrayData(a), Opts(FALSE, 0, TRUE, safe))
  \/ \E v \in {Lit(1), Lit(256)} : Write(NumberData(v), NoOpts)
  \/ Write(StringData(Text(MaxTextLen)), NoOpts)
  \/ Write(BufferData(Bytes(MaxRawLen)), NoOpts)
  \/ \E safe \in BOOLEAN :
       Write(ArrayData(ByteList(MaxRawLen)), Opts(FALSE, 0, TRUE, safe))
  \/ \E v \in {Lit(-1), Lit(255), Lit(256)} : Write8(v)
  \/ \E v \in {Lit(-1), Lit(255), Lit(256)} : Write16(v)
  \/ \E v \in {Lit(-1), Lit(255), Lit(256)} : Write32(v)
  \/ \E q \in Positions : Position(q)
  \/ \E amount \in Amounts : Move(amount)
  \/ Reset
  \/ \E n \in 0..(length - 1), v \in IndexValues : SetIndex(n, v)
  \/ Return

Spec == Init /\ [][Next]_vars

(***************************************************************************)
(* Integer writes alone, into writers long enough for a 32-bit value, with *)
(* every edge of the six encodings among the values.                       *)
(***************************************************************************)
MaxIntLen == 4     \* length of the writer's buffer under SpecInt

IntEdges == Ints \cup {Lit(-32769), Lit(-129)}

InitInt ==
  /\ length \in 1..MaxIntLen
  /\ endianness \in {"BE", "LE"}
  /\ buffer = [i \in 0..(length - 1) |-> 0]
  /\ pos = 0
  /\ last = Idle
  /\ twin = NoTwin

NextInt ==
  \/ \E v \in IntEdges : WriteInt(v, NoOpts)
  \/ \E q \in (-1)..(MaxIntLen + 1) : Position(q)
  \/ Reset
  \/ Return

SpecInt == InitInt /\ [][NextInt]_vars

(***************************************************************************)
(* The claims.  They are stated on `last`, the call that has just          *)
(* returned or thrown, and on the writer's state after it.                 *)
(***************************************************************************)
WriteOps ==
  {"write", "writeInt", "writeString", "writeRaw", "write8", "write16",
   "write32"}

IsWrite == last.op \in WriteOps

Failed == last.err # "none"

Unchanged == buffer = last.buffer0 /\ pos = last.pos0

IntWrite == IsWrite /\ last.data.kind = "number"

StringWrite == IsWrite /\ last.data.kind = "string"

ListWrite == IsWrite /\ last.data.kind = "array"

In(v, min, max) == Leq(min, v) /\ Leq(v, max)

\* -2^31 .. 2^32 - 1
InInt32Union(v) == In(v, Num(-32768, 0), Num(65535, 65535))

\* the bytes of the buffer at offsets from .. from + n - 1
Slice(b, from, n) == [i \in 1..n |-> b[from + i - 1]]

AllBytes(arry) ==
  \A i \in 1..Len(arry) : arry[i].number /\ arry[i].v \in 0..255

\* a safe list holds bytes only: the caller of writeRaw with safe: true
\* answers for that
WellFormed == (ListWrite /\ last.opts.safe) => AllBytes(last.data.seq)

\* C1: after any sequence of operations, successful or failed, the cursor
\* satisfies 0 <= cursor <= length.  (Stated after calls with well-formed
\* arguments.)
C1_CursorInBounds == WellFormed => (0 <= pos /\ pos <= length)

\* C2: a write that fails leaves the buffer byte for byte as it was before
\* the call.
C2_AllOrNothing == (IsWrite /\ WellFormed /\ Failed) => buffer = last.buffer0

\* C3: a write that succeeds lowers remaining() by exactly the number of
\* bytes encoded, and a write that fails leaves the cursor where it was.
C3_RemainingAccounting ==
  (IsWrite /\ WellFormed) =>
    IF Failed THEN pos = last.pos0
    ELSE remaining(pos) = remaining(last.pos0) - last.n

\* the encoding C4 names for v
C4_Encoding(v) ==
  CASE In(v, Lit(0), Lit(255)) -> [method |-> "writeUInt8", length |-> 1]
    [] In(v, Lit(256), Lit(65535)) ->
         [method |-> "writeUInt16" \o endianness, length |-> 2]
    [] In(v, Lit(65536), Num(65535, 65535)) ->
         [method |-> "writeUInt32" \o endianness, length |-> 4]
    [] In(v, Lit(-128), Lit(-1)) -> [method |-> "writeInt8", length |-> 1]
    [] In(v, Lit(-32768), Lit(-129)) ->
         [method |-> "writeInt16" \o endianness, length |-> 2]
    [] In(v, Num(-32768, 0), Lit(-32769)) ->
         [method |-> "writeInt32" \o endianness, length |-> 4]

\* C4: an integer write with no size that succeeds selected the first of
\* u8, u16, u32, i8, i16, i32 whose range holds the value (0..255 one byte
\* unsigned, 256..65535 two bytes unsigned, 65536..2^32-1 four bytes
\* unsigned, -128..-1 one byte signed, -32768..-129 two bytes signed,
\* -2^31..-32769 four bytes signed) and advanced the cursor by its length.
C4_AutoSelectsFirstFit ==
  (IntWrite /\ ~last.opts.hasSize /\ ~Failed) =>
    /\ last.type \in 1..Len(_methods)
    /\ _methods[last.type].method = C4_Encoding(last.data.num).method
    /\ _methods[last.type].length = C4_Encoding(last.data.num).length
    /\ pos = last.pos0 + C4_Encoding(last.data.num).length

\* C4 happens: -32769, the first value only i32 holds, was written into a
\* writer of length 4 and filled it
C4_Witness ==
  /\ IntWrite /\ ~last.opts.hasSize /\ ~Failed
  /\ last.data.num = Lit(-32769)
  /\ last.type = 6
  /\ last.pos0 = 0
  /\ pos = 4
  /\ buffer # last.buffer0

\* a value with at least one byte to write
NonZeroLength ==
  \/ last.data.kind = "number" /\ InInt32Union(last.data.num)
       /\ (last.opts.hasSize => last.opts.size \in {8, 16, 32})
  \/ last.data.kind = "string" /\ Len(last.data.seq) > 0
       /\ (last.opts.hasSize => last.opts.size > 0)
  \/ last.data.kind \in {"buffer", "array"} /\ Len(last.data.seq) > 0

\* C5: on a full writer every write of a value of non-zero length fails
\* with the overflow error and leaves buffer and cursor unchanged.
C5_FullWriterOverflows ==
  (IsWrite /\ WellFormed /\ full(last.pos0) /\ NonZeroLength) =>
    (last.err = "overflow" /\ Unchanged)

\* the N bytes C6 names: the first min(len, N) text bytes, then zeros
C6_Bytes(text, N) ==
  [i \in 1..N |-> IF i <= Len(utf8(text)) THEN utf8(text)[i] ELSE 0]

\* C6: writeString with {size: N} writes exactly N bytes for every N and
\* every text: the cursor advances by N and the N bytes at the old cursor
\* are the text bytes cut at N or padded with zeros to N.  (Stated for the
\* calls whose N bytes fit in the buffer.)
C6_SizedStringWritesN ==
  (StringWrite /\ last.opts.hasSize
     /\ last.opts.size <= remaining(last.pos0)) =>
    /\ ~Failed
    /\ pos = last.pos0 + last.opts.size
    /\ Slice(buffer, last.pos0, last.opts.size)
         = C6_Bytes(last.data.seq, last.opts.size)

\* C7: writeRaw of a list without safe whose elements are all numbers in
\* 0..255 and which fits in remaining() succeeds, stores each element as
\* one byte from the cursor on and advances the cursor by the list length.
\* (Stated for lists of at least one element.)
C7_ValidListWritten ==
  (ListWrite /\ ~last.opts.safe /\ AllBytes(last.data.seq)
     /\ Len(last.data.seq) \in 1..remaining(last.pos0)) =>
    /\ ~Failed
    /\ pos = last.pos0 + Len(last.data.seq)
    /\ Slice(buffer, last.pos0, Len(last.data.seq))
         = [i \in 1..Len(last.data.seq) |-> last.data.seq[i].v]

\* C8: writeRaw of a list without safe with an element outside 0..255 (-1
\* and 300 among them) fails with the range error, with an element that is
\* no number with the array-type error, and leaves buffer and cursor
\* unmodified.
C8_InvalidListRejected ==
  (ListWrite /\ ~last.opts.safe /\ ~AllBytes(last.data.seq)) =>
    /\ last.err \in {"range", "arrayType"}
    /\ (\A i \in 1..Len(last.data.seq) : last.data.seq[i].number)
         => last.err = "range"
    /\ Unchanged

\* C9: an integer write, with or without a size, fails with the range
\* error and leaves buffer and cursor unchanged for every value outside
\* -2^31 .. 2^32-1, and never fails with the range error for a value inside.
C9_RangeErrorIffOutside ==
  IntWrite =>
    /\ ~InInt32Union(last.data.num) => (last.err = "range" /\ Unchanged)
    /\ InInt32Union(last.data.num) => last.err # "range"

\* C9 happens: 2^32 was refused with a size given, after the writer had
\* been written to
C9_Witness ==
  /\ IntWrite /\ last.opts.hasSize
  /\ last.data.num = Num(65536, 0)
  /\ last.err = "range"
  /\ last.pos0 > 0
  /\ \E i \in DOMAIN buffer : buffer[i] # 0

\* C10: an integer write with a size that is given and is not 8, 16 or 32
\* (0 and 24 among them) fails with the size error and leaves buffer and
\* cursor unchanged.  (Stated for values within -2^31 .. 2^32-1.)
C10_InvalidSizeRejected ==
  (IntWrite /\ last.opts.hasSize /\ last.opts.size \notin {8, 16, 32}
     /\ InInt32Union(last.data.num)) =>
    (last.err = "size" /\ Unchanged)

\* C11: an integer write with size s in {8, 16, 32} that succeeds selected
\* the unsigned encoding of width s for a value >= 0, 0 included, and the
\* signed encoding of width s for a value < 0, and advanced the cursor by
\* s / 8.
C11_SizedSelectsBySign ==
  (IntWrite /\ last.opts.hasSize /\ last.opts.size \in {8, 16, 32}
     /\ ~Failed) =>
    /\ last.type = bySize(IF Leq(Zero, last.data.num) THEN "unsigned"
                                                      ELSE "signed",
                          last.opts.size)
    /\ pos = last.pos0 + (last.opts.size \div 8)

\* C12: writeString with no size fails with the overflow error, nothing
\* written, when the text's bytes exceed remaining(); otherwise it writes
\* the text's bytes at the cursor and, unless null is false, one zero byte
\* exactly when capacity remains: the cursor ends at
\* min(old cursor + len + 1, length) with null enabled and at
\* old cursor + len with null: false, and a text that fills the buffer
\* exactly is written without terminator and without error.
C12_UnsizedString ==
  (StringWrite /\ ~last.opts.hasSize) =>
    LET len == Len(utf8(last.data.seq))
    IN IF len > remaining(last.pos0)
       THEN last.err = "overflow" /\ Unchanged
       ELSE /\ ~Failed
            /\ Slice(buffer, last.pos0, len) = utf8(last.data.seq)
            /\ IF last.opts.null
               THEN /\ pos = Min(last.pos0 + len + 1, length)
                    /\ last.pos0 + len < length
                         => (buffer[last.pos0 + len] = 0 /\ last.n = len + 1)
                    /\ last.pos0 + len = length => last.n = len
               ELSE pos = last.pos0 + len /\ last.n = len

\* C12 happens: a text of three bytes filled what was left of the buffer,
\* exactly, and got no terminator; no error
C12_Witness ==
  /\ StringWrite /\ ~last.opts.hasSize /\ last.opts.null /\ ~Failed
  /\ Len(utf8(last.data.seq)) = 3
  /\ last.pos0 + 3 = length
  /\ pos = length
  /\ Slice(buffer, last.pos0, 3) = <<1, 194, 128>>

\* the cursor a position or move call asks for
C13_Target == IF last.op = "move" THEN last.pos0 + last.arg ELSE last.arg

\* C13: position(p), and move(amount) with p = position() + amount,
\* succeeds exactly when 0 <= p <= length and then the cursor is p;
\* otherwise it fails with the range error and the cursor keeps its value;
\* the buffer is unchanged either way, and move(amount) has the outcome of
\* position(position() + amount).
C13_CursorSetter ==
  (last.op \in {"position", "move"}) =>
    /\ buffer = last.buffer0
    /\ IF 0 <= C13_Target /\ C13_Target <= length
       THEN ~Failed /\ pos = C13_Target
       ELSE last.err = "range" /\ pos = last.pos0
    /\ last.op = "move" =>
         LET r == position(last.buffer0, last.pos0, last.pos0 + last.arg)
         IN r.buffer = buffer /\ r.pos = pos /\ r.err = last.err

\* C13 happens: in a writer that holds data, move(2) from one byte before
\* the end was refused and the cursor stayed
C13_Witness ==
  /\ last.op = "move" /\ last.arg = 2
  /\ last.pos0 = length - 1
  /\ last.err = "range"
  /\ pos = last.pos0
  /\ \E i \in DOMAIN buffer : buffer[i] # 0

\* C14: from any reachable state, after successful and failed operations
\* alike, reset() succeeds and leaves every byte 0 and the cursor 0, the
\* state of a freshly constructed writer of that length, with
\* remaining() = length.
C14_ResetRestoresFresh ==
  (last.op = "reset") =>
    /\ ~Failed
    /\ \A i \in DOMAIN buffer : buffer[i] = 0
    /\ DOMAIN buffer = 0..(length - 1)
    /\ pos = 0
    /\ remaining(pos) = length

\* C14 happens: reset was called on a writer that held data and whose
\* cursor a failed write had left past the end
C14_Witness ==
  /\ last.op = "reset" /\ ~Failed
  /\ last.pos0 > length
  /\ \E i \in DOMAIN last.buffer0 : last.buffer0[i] # 0
  /\ pos = 0
  /\ \A i \in DOMAIN buffer : buffer[i] = 0

(***************************************************************************)
(* Integer writes with and without a size, into writers long enough for a  *)
(* 32-bit value.                                                           *)
(***************************************************************************)
\* the edges of the six encodings whose bytes are 00, 01, 80 or FF
RoundInts ==
  { Num(-32768, 0), Lit(-32768), Lit(-128), Lit(-1), Lit(0), Lit(1),
    Lit(255), Lit(256), Lit(65535), Lit(65536), Num(65535, 65535) }

\* the values written with each of the sizes 8, 16 and 32
RoundSized ==
  { Num(-32768, 0), Lit(-128), Lit(-1), Lit(0), Lit(1), Lit(255), Lit(256),
    Num(65535, 65535) }

NextRound ==
  \/ \E v \in RoundInts : WriteInt(v, NoOpts)
  \/ \E v \in RoundSized, size \in Elements(INT_SIZES) :
       WriteInt(v, SizeOpt(size))
  \/ \E q \in 0..MaxIntLen : Position(q)
  \/ Reset
  \/ Return

SpecRound == InitInt /\ [][NextRound]_vars

\* the number that the bytes s hold: two's complement when signed, least
\* significant byte first when le
Decode(s, signed, le) ==
  LET be == IF le THEN Reverse(s) ELSE s
      n == Len(be)
      hi == IF n = 4 THEN be[1] * 256 + be[2] ELSE 0
      lo == CASE n = 4 -> be[3] * 256 + be[4]
               [] n = 2 -> be[1] * 256 + be[2]
               [] n = 1 -> be[1]
  IN IF ~(signed /\ be[1] >= 128) THEN Num(hi, lo)
     ELSE CASE n = 4 -> Num(hi - Half, lo)
            [] n = 2 -> Lit(lo - Half)
            [] n = 1 -> Lit(lo - 256)

\* C15: for every integer write that succeeds, without a size or with size
\* 8, 16 or 32, the bytes at the offset the write started at, decoded with
\* the endianness of the writer and the width and signedness of the encoding
\* selected, are the value written.
C15_RoundTrip ==
  (IntWrite /\ ~Failed) =>
    /\ last.type \in 1..Len(_methods)
    /\ LET m == NativeMethod(_methods[last.type].method)
       IN /\ m.bytes = _methods[last.type].length
          /\ last.pos0 + m.bytes <= length
          /\ Decode(Slice(buffer, last.pos0, m.bytes), m.signed,
                    endianness = "LE") = last.data.num

\* C15 happens: 256 written with size 32 at the start of a little-endian
\* writer went through the unsigned 32-bit encoding
C15_Witness ==
  /\ IntWrite /\ ~Failed
  /\ last.opts.hasSize /\ last.opts.size = 32
  /\ last.data.num = Lit(256)
  /\ endianness = "LE"
  /\ last.pos0 = 0
  /\ last.type = 3
  /\ length = 4
  /\ Slice(buffer, 0, 4) = <<0, 1, 0, 0>>

(***************************************************************************)
(* write(v) of values that take two or four bytes, 300 among them.         *)
(***************************************************************************)
EndianInts == {Lit(256), Lit(300), Lit(65535), Lit(65536)}

NextEndian ==
  \/ \E v \in EndianInts : Write(NumberData(v), NoOpts)
  \/ \E q \in 0..MaxIntLen : Position(q)
  \/ Reset
  \/ Return

SpecEndian == InitInt /\ [][NextEndian]_vars

\* C16: a multi-byte integer is stored most significant byte first by a
\* big-endian writer and least significant byte first by a little-endian
\* one: v in 256..65535 written without a size at cursor c puts v div 256
\* at c and v mod 256 at c + 1 when big-endian, the two bytes the other way
\* round when little-endian, and write(300) into a fresh big-endian writer
\* of length 4 leaves the bytes 01 2C 00 00 and the cursor 2.
C16_EndianLayout ==
  (IntWrite /\ ~last.opts.hasSize /\ ~Failed) =>
    LET v == last.data.num
        c == last.pos0
    IN /\ In(v, Lit(256), Lit(65535)) =>
            /\ pos = c + 2
            /\ endianness = "BE" =>
                 (buffer[c] = v.lo \div 256 /\ buffer[c + 1] = v.lo % 256)
            /\ endianness = "LE" =>
                 (buffer[c] = v.lo % 256 /\ buffer[c + 1] = v.lo \div 256)
       /\ In(v, Lit(65536), Num(65535, 65535)) =>
            /\ pos = c + 4
            /\ endianness = "BE" =>
                 Slice(buffer, c, 4)
                   = <<v.hi \div 256, v.hi % 256, v.lo \div 256, v.lo % 256>>
            /\ endianness = "LE" =>
                 Slice(buffer, c, 4)
                   = <<v.lo % 256, v.lo \div 256, v.hi % 256, v.hi \div 256>>
       /\ (v = Lit(300) /\ endianness = "BE" /\ length = 4 /\ c = 0
             /\ \A i \in DOMAIN last.buffer0 : last.buffer0[i] = 0) =>
            (Slice(buffer, 0, 4) = <<1, 44, 0, 0>> /\ pos = 2)

\* C16 happens: write(300) into a fresh little-endian writer of length 4
\* left 2C 01 00 00 and the cursor 2
C16_Witness ==
  /\ last.op = "write" /\ ~Failed
  /\ last.data.num = Lit(300)
  /\ endianness = "LE" /\ length = 4 /\ last.pos0 = 0
  /\ \A i \in DOMAIN last.buffer0 : last.buffer0[i] = 0
  /\ Slice(buffer, 0, 4) = <<44, 1, 0, 0>>
  /\ pos = 2

(***************************************************************************)
(* Two writers of one length, one big-endian and one little-endian, given  *)
(* the same calls.  buffer, pos and endianness are those of the writer the *)
(* caller is addressing, twin holds the other one.  Each call is made on   *)
(* the first writer, then the caller turns to the second (Switch), makes   *)
(* the same call on it (Replay) and goes on to the next call (Done).       *)
(* twin.err is the outcome of the call on the first writer, twin.err2 on   *)
(* the second; twin.multi tells that some integer write so far has stored  *)
(* more than one byte.                                                     *)
(***************************************************************************)
Other(e) == IF e = "BE" THEN "LE" ELSE "BE"

InitTwin ==
  /\ length \in 1..MaxLen
  /\ endianness \in {"BE", "LE"}
  /\ buffer = [i \in 0..(length - 1) |-> 0]
  /\ pos = 0
  /\ last = Idle
  /\ twin = [buffer |-> buffer, pos |-> 0, err |-> "none", phase |-> "idle",
             err2 |-> "none", multi |-> FALSE]

\* the call `last` made on a writer with buffer b and cursor p
Again(b, p) ==
  CASE last.op \in {"write", "write8", "write16", "write32"} ->
         write(b, p, last.data, last.opts)
    [] last.op = "writeInt" -> writeInt(b, p, last.data.num, last.opts)
    [] last.op = "writeString" -> writeString(b, p, last.data.seq, last.opts)
    [] last.op = "writeRaw" -> writeRaw(b, p, last.data, last.opts)
    [] last.op = "position" -> position(b, p, last.arg)
    [] last.op = "move" -> move(b, p, last.arg)
    [] last.op = "reset" -> reset(b, p)
    [] last.op = "set" -> setIndex(b, p, last.index, last.arg)

Switch ==
  /\ last # Idle
  /\ twin.phase = "idle"
  /\ buffer' = twin.buffer
  /\ pos' = twin.pos
  /\ endianness' = Other(endianness)
  /\ twin' = [buffer |-> buffer, pos |-> pos, err |-> last.err,
              phase |-> "switched", err2 |-> "none",
              multi |-> twin.multi
                          \/ (last.data.kind = "number" /\ last.n > 1)]
  /\ UNCHANGED <<length, last>>

Replay ==
  /\ twin.phase = "switched"
  /\ LET r == Again(buffer, pos)
     IN /\ buffer' = r.buffer
        /\ pos' = r.pos
        /\ twin' = [twin EXCEPT !.phase = "replayed", !.err2 = r.err]
  /\ UNCHANGED <<length, endianness, last>>

Done ==
  /\ twin.phase = "replayed"
  /\ last' = Idle
  /\ twin' = [twin EXCEPT !.phase = "idle", !.err = "none", !.err2 = "none"]
  /\ UNCHANGED <<buffer, pos, length, endianness>>

TwinInts == {Lit(1), Lit(256), Num(65536, 0)}

\* a list of one byte and a list whose only element is 300
TwinLists == {ByteList(1), <<Elem(300)>>}

NextTwin ==
  \/ \E v \in TwinInts : WriteInt(v, NoOpts)
  \/ Write16(Lit(1))
  \/ \E null \in BOOLEAN : WriteString(Text(1), Opts(FALSE, 0, null, FALSE))
  \/ WriteRaw(BufferData(Bytes(MaxRawLen)), NoOpts)
  \/ \E a \in TwinLists, safe \in BOOLEAN :
       WriteRaw(ArrayData(a), Opts(FALSE, 0, TRUE, safe))
  \/ \E q \in {0, length + 1} : Position(q)
  \/ \E amount \in {-1, 1} : Move(amount)
  \/ Reset
  \/ \E n \in 0..(length - 1), v \in {255, 256} : SetIndex(n, v)
  \/ Switch
  \/ Replay
  \/ Done

SpecTwin == InitTwin /\ [][NextTwin]_vars

\* C17: two writers of equal length that differ in endianness only, given
\* the same calls, have equal cursors and the same outcome of every call,
\* and equal buffers as long as no integer write of more than one byte is
\* among the calls.
C17_EndiannessOnlyMultiByte ==
  (twin.phase = "replayed") =>
    /\ pos = twin.pos
    /\ twin.err2 = twin.err
    /\ ~twin.multi => buffer = twin.buffer

\* C17 happens: the two writers have both taken a two-byte integer write
\* and now hold different bytes, the cursors equal
C17_Witness ==
  /\ twin.phase = "replayed"
  /\ twin.multi
  /\ buffer # twin.buffer
  /\ pos = twin.pos /\ pos > 0
  /\ twin.err2 = twin.err

\* C18: an indexed set of v at an offset n in 0 .. length-1 succeeds exactly
\* when 0 <= v <= 255, then stores v at n and changes no other byte and not
\* the cursor; for every other v, -1 among them, it fails with the range
\* error and leaves buffer and cursor unchanged.
C18_IndexedSet ==
  (last.op = "set") =>
    IF 0 <= last.arg /\ last.arg <= 255
    THEN /\ ~Failed
         /\ buffer = [last.buffer0 EXCEPT ![last.index] = last.arg]
         /\ pos = last.pos0
    ELSE last.err = "range" /\ Unchanged

\* C19: the dispatch error of writeInt is unreachable: for every value
\* within -2^31 .. 2^32-1, with no size or with size 8, 16 or 32, an
\* encoding is selected, so no call ever raises the dispatch error.
C19_DispatchUnreachable ==
  /\ last.err # "dispatch"
  /\ (IntWrite /\ InInt32Union(last.data.num)
        /\ (last.opts.hasSize => last.opts.size \in {8, 16, 32})) =>
       /\ firstMatch(last.data.num) # 0
       /\ last.err \in {"none", "overflow", "AssertionError"}
       /\ ~Failed => last.type # 0

\* C19 happens: -2^31, which only the last entry of the method table holds,
\* passed the range check and got as far as the overflow check
C19_Witness ==
  /\ IntWrite /\ ~last.opts.hasSize
  /\ last.data.num = Num(-32768, 0)
  /\ last.err = "overflow"
  /\ \E i \in DOMAIN buffer : buffer[i] # 0

\* the bytes a successful write of last.n bytes is to leave at the cursor it
\* started at: the bytes of the Buffer or list, the text's bytes cut or
\* padded to the size given or followed by the terminator when last.n has
\* room for it
C20_Encoding ==
  CASE last.data.kind = "buffer" -> last.data.seq
    [] last.data.kind = "array" ->
         [i \in 1..Len(last.data.seq) |-> last.data.seq[i].v]
    [] last.data.kind = "string" /\ truthySize(last.opts) ->
         C6_Bytes(last.data.seq, last.opts.size)
    [] last.data.kind = "string" /\ ~truthySize(last.opts) ->
         IF last.n > Len(utf8(last.data.seq))
         THEN utf8(last.data.seq) \o <<0>>
         ELSE utf8(last.data.seq)

\* C20: a successful write of n bytes at cursor c changes only the offsets
\* c .. c+n-1: every byte below c or at or above c+n keeps its value, the n
\* bytes are the encoding of the value written and the cursor ends at c+n,
\* so that successive writes do not overlap and the bytes below the cursor
\* are the encodings in call order.
C20_WriteFrame ==
  (IsWrite /\ ~Failed) =>
    /\ last.n >= 0
    /\ pos = last.pos0 + last.n
    /\ DOMAIN buffer = DOMAIN last.buffer0
    /\ \A i \in DOMAIN buffer :
         (i < last.pos0 \/ i >= last.pos0 + last.n)
           => buffer[i] = last.buffer0[i]
    /\ last.n > 0 => last.pos0 + last.n <= length
    /\ IF last.data.kind = "number"
       THEN LET m == NativeMethod(_methods[last.type].method)
            IN /\ m.bytes = last.n
               /\ Decode(Slice(buffer, last.pos0, last.n), m.signed,
                         endianness = "LE") = last.data.num
       ELSE Slice(buffer, last.pos0, last.n) = C20_Encoding

\* C20 happens: one byte was written at offset 1 between two bytes that
\* were not zero, and they kept their values
C20_Witness ==
  /\ IsWrite /\ ~Failed
  /\ length = 3
  /\ last.pos0 = 1 /\ last.n = 1 /\ pos = 2
  /\ last.buffer0[0] # 0 /\ last.buffer0[2] # 0
  /\ buffer[0] = last.buffer0[0] /\ buffer[2] = last.buffer0[2]
  /\ buffer[1] # last.buffer0[1]

====
